---- MODULE Spec2Model ----
(***************************************************************************)
(* Health-sample acquisition, normalization and sync pipeline:             *)
(*   healthProvider (getConnectorStatus, requestPermissions, readLast24h)  *)
(*   sync (toIngestSamples, uploadToBackend)                               *)
(* One exported function is in flight at a time; pc is its position.       *)
(* The settings screen (connector status, storage mode, permissions, sync)  *)
(* and the add screen (manual entry) are modelled over the same variables.  *)
(* Numbers are fixed-point integers counted in ten-thousandths (Unit = 1.0).    *)
(* Instants are whole seconds counted from the start of the read window.   *)
(***************************************************************************)
EXTENDS Integers, Sequences, FiniteSets, TLC

VARIABLES os, pc, call, result, posts, payloads, permRequests, q, queryCount,
          storageMode, connectorStatus, busy, refreshes, running, finished,
          selectedType, form, samplePreview, submitting, edits, submitted

\* healthProvider and sync, called one function at a time
apiVars == <<os, pc, call, result, posts, payloads, permRequests, q, queryCount>>

\* the settings store and the settings screen
settingsVars ==
  <<storageMode, connectorStatus, busy, refreshes, running, finished>>

\* the add screen
addVars == <<selectedType, form, samplePreview, submitting, edits, submitted>>

vars == <<apiVars, settingsVars, addVars>>

(* ------------------------------ bounds --------------------------------- *)

\* longest sample list handed to uploadToBackend
MaxSamples == 5

\* most vendor records the platform returns over one read, all categories
MaxRecords == 3

(* --------------------------- program constants ------------------------- *)

\* fixed-point one
Unit == 10000

\* 18.018, the mmol/L -> mg/dL factor, in thousandths
MmolFactorMilli == 18018

\* 24 * 60, the iOS daily step bucket in minutes
DailyMinutes == 1440

\* length of the read window in seconds (24 * 60 * 60 * 1000 ms)
WindowSeconds == 86400

(* ------------------------- JavaScript values --------------------------- *)

\* the value of an absent property / a String where none was given
Undefined == "<undefined>"

\* Number(x) of a value that is not numeric
NaN == -999999999

\* new Date(x): an instant, or Invalid Date when x is not a date
InvalidDate == [valid |-> FALSE, t |-> 0]

NewDate(x) == IF x = NaN THEN InvalidDate ELSE [valid |-> TRUE, t |-> x]

\* Date.prototype.toISOString of a valid date: YYYY-MM-DDTHH:mm:ss as fields
ToISOString(d) ==
  [day |-> d.t \div 86400, hh |-> (d.t % 86400) \div 3600,
   mm |-> (d.t % 3600) \div 60, ss |-> d.t % 60]

\* the instant an ISO-8601 string denotes
ParseISO(s) == s.day * 86400 + s.hh * 3600 + s.mm * 60 + s.ss

\* e?.message ?? fallback
MessageOr(e, fallback) == IF e.message = Undefined THEN fallback ELSE e.message

SeqSum(s) == LET RECURSIVE go(_)
                 go(i) == IF i = 0 THEN 0 ELSE s[i] + go(i - 1)
             IN go(Len(s))

(* --------------------------- enumerations ------------------------------ *)

Platforms == {"ios", "android", "web"}

StorageModes == {"raw", "aggregated", "local_only"}

SampleTypes == {"blood_glucose", "heart_rate", "blood_pressure", "steps",
                "exercise_minutes", "ecg"}

UserIds == {"u_1"}

\* what a rejected promise / thrown value carries: an Error with its message,
\* or a value without one (a string, as the HealthKit callbacks pass)
Errors == {[message |-> "Network Error"], [message |-> Undefined]}

\* what a failed dynamic import rejects with
ImportErrors == {[message |-> "no module"], [message |-> Undefined]}

NoResult == [kind |-> "none"]

NoCall == [fn |-> "none"]

Range(f) == {f[i] : i \in DOMAIN f}

SeqsUpTo(S, n) == UNION {[1..k -> S] : k \in 0..n}

\* a fresh call: the per-call logs start empty
BeginCall(c) ==
  /\ pc = "idle"
  /\ call' = c
  /\ UNCHANGED os

(* ------------------- healthProvider: getConnectorStatus ---------------- *)

\* what the platform side of a call can do: the dynamic import throws, the
\* native call throws / rejects / calls back with an error, or it answers
ImportThrows == {[k |-> "import_throws", e |-> e] : e \in ImportErrors}

NativeThrows == {[k |-> "native_throws", e |-> e] : e \in Errors}

ProbeOutcomes ==
  ImportThrows \cup NativeThrows \cup {[k |-> "answer", ok |-> b] : b \in BOOLEAN}

Failed(o) == o.k \in {"import_throws", "native_throws"}

Returned(v) == [kind |-> "returned", value |-> v]

Threw(e) == [kind |-> "threw", error |-> e]

\* the native branches without their try / catch
StatusResult_uncaught(platform, o) ==
  IF platform \in {"ios", "android"}
  THEN IF Failed(o) THEN Threw(o.e)
       ELSE IF o.ok THEN Returned([available |-> TRUE])
            ELSE Returned([available |-> FALSE, reason |-> "not available"])
  ELSE Returned([available |-> FALSE,
                 reason |-> "Connectors not available on web"])

\* how getConnectorStatus settles: both native branches sit in try / catch
StatusResult(platform, o) ==
  IF platform = "ios"
  THEN IF Failed(o)
       THEN Returned([available |-> FALSE,
                      reason |-> MessageOr(o.e, "HealthKit module not available")])
       ELSE IF o.ok THEN Returned([available |-> TRUE])
            ELSE Returned([available |-> FALSE,
                           reason |-> "HealthKit not available"])
  ELSE IF platform = "android"
  THEN IF Failed(o)
       THEN Returned([available |-> FALSE,
                      reason |-> MessageOr(o.e, "Health Connect module not available")])
       ELSE IF ~o.ok
            THEN Returned([available |-> FALSE,
                           reason |-> "Health Connect init failed"])
            ELSE Returned([available |-> TRUE])
  ELSE Returned([available |-> FALSE,
                 reason |-> "Connectors not available on web"])

\* the platform's part in the outcome, kept beside it
With(r, o) == r @@ [outcome |-> o]

\* getConnectorStatus on ios / android: import the module, probe it
StatusCall ==
  /\ os \in {"ios", "android"}
  /\ BeginCall([fn |-> "getConnectorStatus"])
  /\ pc' = "status_wait"
  /\ UNCHANGED <<result, posts, payloads, permRequests, q, queryCount>>
  /\ UNCHANGED <<settingsVars, addVars>>

\* the import / probe settles
StatusSettle ==
  \E o \in ProbeOutcomes :
    /\ pc = "status_wait"
    /\ result' = With(StatusResult(os, o), o)
    /\ pc' = "done"
    /\ UNCHANGED <<os, call, posts, payloads, permRequests, q, queryCount>>
    /\ UNCHANGED <<settingsVars, addVars>>

\* getConnectorStatus on any other platform
StatusWeb ==
  /\ os \notin {"ios", "android"}
  /\ BeginCall([fn |-> "getConnectorStatus"])
  /\ result' = With(StatusResult(os, [k |-> "none"]), [k |-> "none"])
  /\ pc' = "done"
  /\ UNCHANGED <<posts, payloads, permRequests, q, queryCount>>
  /\ UNCHANGED <<settingsVars, addVars>>

(* ------------------- healthProvider: requestPermissions ---------------- *)

Categories == {"glucose", "heart_rate", "blood_pressure", "steps",
               "exercise", "ecg"}

\* AppleHealthKit.Constants.Permissions.* in perms.permissions.read
IOSReadPermissions ==
  <<"BloodGlucose", "HeartRate", "BloodPressureSystolic",
    "BloodPressureDiastolic", "StepCount", "AppleExerciseTime",
    "Electrocardiogram">>

\* the list with the Steps entry left out
AndroidReadPermissions_noSteps ==
  <<"BloodGlucose", "HeartRate", "BloodPressure", "ExerciseSession">>

\* the recordType of each {accessType: "read", recordType} entry
AndroidReadPermissions ==
  <<"BloodGlucose", "HeartRate", "BloodPressure", "Steps", "ExerciseSession">>

\* the health category a platform permission / record type gives access to
CategoryOf(p) ==
  CASE p = "BloodGlucose" -> "glucose"
    [] p = "HeartRate" -> "heart_rate"
    [] p \in {"BloodPressureSystolic", "BloodPressureDiastolic",
              "BloodPressure"} -> "blood_pressure"
    [] p \in {"StepCount", "Steps"} -> "steps"
    [] p \in {"AppleExerciseTime", "ExerciseSession"} -> "exercise"
    [] p = "Electrocardiogram" -> "ecg"

ReadPermissions(platform) ==
  IF platform = "ios" THEN IOSReadPermissions ELSE AndroidReadPermissions

\* the platform's answer to one permission request: an error, or the list of
\* granted permissions (ios: the callback without error, nothing listed)
PermOutcomes(platform) ==
  NativeThrows \cup
  IF platform = "ios" THEN {[k |-> "answer", granted |-> {}]}
  ELSE {[k |-> "answer", granted |-> g] : g \in SUBSET Range(AndroidReadPermissions)}

\* how requestPermissions settles: both native branches sit in try / catch
PermResult(platform, o) ==
  IF platform = "ios"
  THEN IF Failed(o)
       THEN Returned([granted |-> FALSE,
                      reason |-> MessageOr(o.e, "HealthKit permission failed")])
       ELSE Returned([granted |-> TRUE])
  ELSE IF platform = "android"
  THEN IF Failed(o)
       THEN Returned([granted |-> FALSE,
                      reason |-> MessageOr(o.e, "Health Connect permission failed")])
       ELSE Returned([granted |-> Cardinality(o.granted) > 0])
  ELSE Returned([granted |-> FALSE, reason |-> "Unsupported platform"])

\* requestPermissions on ios / android, the import fails: caught
PermImportThrows ==
  \E o \in ImportThrows :
    /\ os \in {"ios", "android"}
    /\ BeginCall([fn |-> "requestPermissions"])
    /\ result' = With(PermResult(os, o), o)
    /\ pc' = "done"
    /\ UNCHANGED <<posts, payloads, permRequests, q, queryCount>>
    /\ UNCHANGED <<settingsVars, addVars>>

\* requestPermissions on ios / android: one initHealthKit / requestPermission
PermCall ==
  /\ os \in {"ios", "android"}
  /\ BeginCall([fn |-> "requestPermissions"])
  /\ permRequests' = Append(permRequests, ReadPermissions(os))
  /\ pc' = "perm_wait"
  /\ UNCHANGED <<result, posts, payloads, q, queryCount>>
  /\ UNCHANGED <<settingsVars, addVars>>

\* the platform answers the permission request
PermSettle ==
  \E o \in PermOutcomes(os) :
    /\ pc = "perm_wait"
    /\ result' = With(PermResult(os, o), o)
    /\ pc' = "done"
    /\ UNCHANGED <<os, call, posts, payloads, permRequests, q, queryCount>>
    /\ UNCHANGED <<settingsVars, addVars>>

\* requestPermissions on any other platform
PermWeb ==
  /\ os \notin {"ios", "android"}
  /\ BeginCall([fn |-> "requestPermissions"])
  /\ result' = With(PermResult(os, [k |-> "none"]), [k |-> "none"])
  /\ pc' = "done"
  /\ UNCHANGED <<posts, payloads, permRequests, q, queryCount>>
  /\ UNCHANGED <<settingsVars, addVars>>

(* ---------------------- vendor records (loosely typed) ----------------- *)

Has(r, f) == f \in DOMAIN r

\* Number(r.f): NaN when the property is absent
Num(r, f) == IF Has(r, f) THEN r[f] ELSE NaN

\* new Date(r.f): Invalid Date when the property is absent
DateOf(r, f) == NewDate(Num(r, f))

\* x * 18.018
TimesMmolFactor(x) == IF x = NaN THEN NaN ELSE (x * MmolFactorMilli) \div 1000

\* x / d for a whole number d >= 1
DivBy(x, d) == IF x = NaN \/ d = NaN THEN NaN ELSE x \div d

\* Math.round((end.getTime() - start.getTime()) / 60000)
RoundMinutes(start, end) ==
  IF start.valid /\ end.valid THEN (end.t - start.t + 30) \div 60 ELSE NaN

\* Math.max(a, b)
Max(a, b) == IF a = NaN \/ b = NaN THEN NaN ELSE IF a >= b THEN a ELSE b

\* HealthKit query results (react-native-health)
IOSRecords(c) ==
  CASE c = "glucose" ->
         { [value |-> 78000, unit |-> "mmol/L", startDate |-> 3600,
            HKWasUserEntered |-> FALSE],
           [value |-> 100 * Unit, unit |-> "mg/dL", startDate |-> 7200,
            HKWasUserEntered |-> TRUE],
           [value |-> 0, unit |-> "mmolPerL", startDate |-> 60],
           [unit |-> "mg/dL", startDate |-> 120] }
    [] c = "heart_rate" ->
         { [value |-> 72 * Unit, startDate |-> 600],
           [startDate |-> 660] }
    [] c = "blood_pressure" ->
         { [bloodPressureSystolicValue |-> 120 * Unit,
            bloodPressureDiastolicValue |-> 80 * Unit, startDate |-> 900],
           [bloodPressureSystolicValue |-> 130 * Unit, startDate |-> 960] }
    [] c = "steps" ->
         { [value |-> 2880 * Unit, startDate |-> 0, endDate |-> 3600],
           [startDate |-> 3600, endDate |-> 7200] }
    [] c = "exercise" ->
         { [value |-> 305000, startDate |-> 1800, endDate |-> 3630],
           [startDate |-> 1860, endDate |-> 1920] }
    [] c = "ecg" ->
         { [startDate |-> 300, averageHeartRate |-> 64 * Unit,
            classification |-> "SinusRhythm", samplingFrequency |-> 512 * Unit,
            voltageMeasurements |-> <<<<0, 12>>, <<1, 15>>>>],
           [startDate |-> 360, classification |-> "NotSet"],
           [startDate |-> 420] }

\* Health Connect records (react-native-health-connect)
AndroidRecords(c) ==
  CASE c = "glucose" ->
         { [inMmolPerL |-> 78000, time |-> 3600, dataOrigin |-> "com.cgm"],
           [inMgPerDl |-> 100 * Unit, time |-> 7200],
           [inMmolPerL |-> 0, time |-> 60, dataOrigin |-> "com.cgm"],
           [time |-> 120, dataOrigin |-> "com.cgm"] }
    [] c = "heart_rate" ->
         { [beatsPerMinute |-> 72 * Unit, time |-> 600],
           [samples |-> <<65 * Unit, 70 * Unit>>, startTime |-> 660,
            endTime |-> 720],
           [time |-> 780] }
    [] c = "blood_pressure" ->
         { [systolic |-> 120 * Unit, diastolic |-> 80 * Unit, time |-> 900],
           [systolic |-> 130 * Unit, time |-> 960],
           [diastolic |-> 85 * Unit, time |-> 1020] }
    [] c = "steps" ->
         { [count |-> 300 * Unit, startTime |-> 0, endTime |-> 300],
           [count |-> 10 * Unit, startTime |-> 600, endTime |-> 600],
           [startTime |-> 900, endTime |-> 960] }
    [] c = "exercise" ->
         { [startTime |-> 1800, endTime |-> 3630],
           [startTime |-> 4000, endTime |-> 3000] }
    [] c = "ecg" -> {}

VendorRecords(platform, c) ==
  IF platform = "ios" THEN IOSRecords(c) ELSE AndroidRecords(c)

(* ----------------- healthProvider: readLast24h, normalization ---------- *)

Sample(type, timestamp, data) ==
  [type |-> type, timestamp |-> timestamp, data |-> data]

\* each operator maps one vendor record to the samples pushed for it

IOSGlucose(g) ==
  LET v == Num(g, "value")
      mgDl == IF Has(g, "unit") /\ g.unit \in {"mmolPerL", "mmol/L"}
              THEN TimesMmolFactor(v) ELSE v
      source == IF Has(g, "HKWasUserEntered") /\ g.HKWasUserEntered
                THEN "manual" ELSE "cgm"
  IN <<Sample("blood_glucose", DateOf(g, "startDate"),
              [mg_dl |-> mgDl, source |-> source])>>

IOSHeartRate(h) ==
  <<Sample("heart_rate", DateOf(h, "startDate"), [bpm |-> Num(h, "value")])>>

IOSBloodPressure(b) ==
  <<Sample("blood_pressure", DateOf(b, "startDate"),
           [systolic_mmhg |-> Num(b, "bloodPressureSystolicValue"),
            diastolic_mmhg |-> Num(b, "bloodPressureDiastolicValue")])>>

IOSSteps(r) ==
  <<Sample("steps", DateOf(r, "startDate"),
           [spm |-> DivBy(Num(r, "value"), DailyMinutes),
            interval_minutes |-> DailyMinutes])>>

IOSExercise(m) ==
  <<Sample("exercise_minutes", DateOf(m, "startDate"),
           [minutes |-> Num(m, "value")])>>

\* a property assigned undefined is a property the wire never carries
ECGFieldOf == [averageHeartRate |-> "average_bpm",
               classification |-> "classification",
               samplingFrequency |-> "sampling_hz",
               voltageMeasurements |-> "voltage_samples"]

IOSECG_zeroFill(e) ==
  <<Sample("ecg", DateOf(e, "startDate"),
           [k \in Range(ECGFieldOf) |->
              LET f == CHOOSE v \in DOMAIN ECGFieldOf : ECGFieldOf[v] = k
              IN IF Has(e, f) THEN e[f] ELSE 0])>>

IOSECG(e) ==
  LET present == {f \in DOMAIN ECGFieldOf : Has(e, f)}
      data == [k \in {ECGFieldOf[f] : f \in present} |->
                 e[CHOOSE f \in present : ECGFieldOf[f] = k]]
  IN <<Sample("ecg", DateOf(e, "startDate"), data)>>

AndroidGlucose(g) ==
  LET mgDl == IF Has(g, "inMgPerDl") THEN g.inMgPerDl
              ELSE IF Has(g, "inMmolPerL") /\ g.inMmolPerL # 0
                   THEN TimesMmolFactor(g.inMmolPerL)
                   ELSE NaN
      dropped == ~Has(g, "inMgPerDl") /\
                 ~(Has(g, "inMmolPerL") /\ g.inMmolPerL # 0)
      source == IF Has(g, "dataOrigin") THEN "cgm" ELSE "manual"
  IN IF dropped THEN <<>>
     ELSE <<Sample("blood_glucose", DateOf(g, "time"),
                   [mg_dl |-> mgDl, source |-> source])>>

AndroidHeartRate(h) ==
  IF Has(h, "beatsPerMinute")
  THEN <<Sample("heart_rate", DateOf(h, "time"), [bpm |-> h.beatsPerMinute])>>
  ELSE IF Has(h, "samples") /\ Len(h.samples) > 0
  THEN <<Sample("heart_rate", DateOf(h, "time"), [bpm |-> h.samples[1]])>>
  ELSE <<>>

AndroidBloodPressure(b) ==
  IF Has(b, "systolic") /\ Has(b, "diastolic")
  THEN <<Sample("blood_pressure", DateOf(b, "time"),
                [systolic_mmhg |-> b.systolic, diastolic_mmhg |-> b.diastolic])>>
  ELSE <<>>

AndroidSteps(r) ==
  LET start == DateOf(r, "startTime")
      end == DateOf(r, "endTime")
      minutes == Max(1, RoundMinutes(start, end))
  IN <<Sample("steps", start,
              [spm |-> DivBy(Num(r, "count"), minutes),
               interval_minutes |-> minutes])>>

AndroidExercise(ex) ==
  LET start == DateOf(ex, "startTime")
      end == DateOf(ex, "endTime")
      minutes == Max(0, RoundMinutes(start, end))
  IN <<Sample("exercise_minutes", start,
              [minutes |-> IF minutes = NaN THEN NaN ELSE minutes * Unit])>>

NormalizeRecord(platform, c, r) ==
  IF platform = "ios"
  THEN CASE c = "glucose" -> IOSGlucose(r)
         [] c = "heart_rate" -> IOSHeartRate(r)
         [] c = "blood_pressure" -> IOSBloodPressure(r)
         [] c = "steps" -> IOSSteps(r)
         [] c = "exercise" -> IOSExercise(r)
         [] c = "ecg" -> IOSECG(r)
  ELSE CASE c = "glucose" -> AndroidGlucose(r)
         [] c = "heart_rate" -> AndroidHeartRate(r)
         [] c = "blood_pressure" -> AndroidBloodPressure(r)
         [] c = "steps" -> AndroidSteps(r)
         [] c = "exercise" -> AndroidExercise(r)
         [] c = "ecg" -> <<>>

RECURSIVE NormalizeBatch_newestFirst(_, _, _)
NormalizeBatch_newestFirst(platform, c, recs) ==
  IF recs = <<>> THEN <<>>
  ELSE NormalizeBatch_newestFirst(platform, c, Tail(recs)) \o
       NormalizeRecord(platform, c, Head(recs))

\* one for-loop: the samples of a category's records, in record order
RECURSIVE NormalizeBatch(_, _, _)
NormalizeBatch(platform, c, recs) ==
  IF recs = <<>> THEN <<>>
  ELSE NormalizeRecord(platform, c, Head(recs)) \o
       NormalizeBatch(platform, c, Tail(recs))

(* ------------------ healthProvider: readLast24h, fan-out --------------- *)

\* the queries of the Promise.all array, in array order
QueryOrder(platform) ==
  IF platform = "ios"
  THEN <<"glucose", "heart_rate", "blood_pressure", "steps", "exercise", "ecg">>
  ELSE <<"glucose", "heart_rate", "blood_pressure", "steps", "exercise">>

\* the ECG query left out of the array
Queried_noECG(platform) == Range(QueryOrder(platform)) \ {"ecg"}

Queried(platform) == Range(QueryOrder(platform))

NoQuery == [st |-> "none", recs |-> <<>>]

NoQueries == [c \in Categories |-> NoQuery]

NoCounts == [c \in Categories |-> 0]

RecordsHeld(qq) == SeqSum([i \in 1..6 |-> Len(qq[QueryOrder("ios")[i]].recs)])

AllFulfilled(platform, qq) ==
  \A c \in Queried(platform) : qq[c].st = "fulfilled"

\* samples.push in loop order: category after category
RECURSIVE CollectFrom(_, _, _)
CollectFrom(platform, qq, i) ==
  IF i > Len(QueryOrder(platform)) THEN <<>>
  ELSE NormalizeBatch(platform, QueryOrder(platform)[i],
                      qq[QueryOrder(platform)[i]].recs)
       \o CollectFrom(platform, qq, i + 1)

ReadSamples(platform, qq) == CollectFrom(platform, qq, 1)

Last24h == [start |-> NewDate(0), end |-> NewDate(WindowSeconds)]

\* await import(...) in readLast24h stands outside any try: a failure is
\* the call's failure
ReadImportResult(o) == Threw(o.e)

\* await Promise.all([...]) when one of the promises rejects: the call's failure
AfterQueryReject(e) == Threw(e)

\* the last line of readLast24h
UnsupportedResult == Returned([samples |-> <<>>, unavailable |-> "Unsupported platform"])

\* readLast24h on ios / android, the import fails: nothing catches it
ReadImportThrows ==
  \E o \in ImportThrows :
    /\ os \in {"ios", "android"}
    /\ BeginCall([fn |-> "readLast24h", window |-> Last24h])
    /\ result' = With(ReadImportResult(o), o)
    /\ pc' = "done"
    /\ UNCHANGED <<posts, payloads, permRequests, q, queryCount>>
    /\ UNCHANGED <<settingsVars, addVars>>

\* readLast24h on ios / android: every category query is issued at once
ReadCall ==
  /\ os \in {"ios", "android"}
  /\ BeginCall([fn |-> "readLast24h", window |-> Last24h])
  /\ q' = [c \in Categories |->
             IF c \in Queried(os) THEN [st |-> "pending", recs |-> <<>>]
             ELSE NoQuery]
  /\ queryCount' = [c \in Categories |->
                      IF c \in Queried(os) THEN queryCount[c] + 1
                      ELSE queryCount[c]]
  /\ pc' = "read_wait"
  /\ UNCHANGED <<result, posts, payloads, permRequests>>
  /\ UNCHANGED <<settingsVars, addVars>>

\* one category query answers with its records; the last answer lets the
\* mapping loops run and the call return; an answer that comes after
\* Promise.all has rejected changes nothing for the caller
QueryResolve ==
  /\ pc \in {"read_wait", "done"}
  /\ call.fn = "readLast24h"
  /\ \E c \in Categories :
      /\ q[c].st = "pending"
      /\ \E recs \in SeqsUpTo(VendorRecords(os, c), MaxRecords - RecordsHeld(q)) :
          LET qq == [q EXCEPT ![c] = [st |-> "fulfilled", recs |-> recs]] IN
          /\ q' = qq
          /\ IF pc = "read_wait" /\ AllFulfilled(os, qq)
             THEN /\ result' = Returned([samples |-> ReadSamples(os, qq)])
                  /\ pc' = "done"
             ELSE UNCHANGED <<result, pc>>
          /\ UNCHANGED <<os, call, posts, payloads, permRequests, queryCount>>
  /\ UNCHANGED <<settingsVars, addVars>>

\* one category query fails: the first failure rejects Promise.all at once
\* and the await in readLast24h rethrows, whatever the other queries are
\* doing; a later failure changes nothing for the caller
QueryReject ==
  /\ pc \in {"read_wait", "done"}
  /\ call.fn = "readLast24h"
  /\ \E c \in Categories, e \in Errors :
      /\ q[c].st = "pending"
      /\ q' = [q EXCEPT ![c] = [st |-> "rejected", recs |-> <<>>]]
      /\ IF pc = "read_wait"
         THEN /\ result' = AfterQueryReject(e)
              /\ pc' = "done"
         ELSE UNCHANGED <<result, pc>>
      /\ UNCHANGED <<os, call, posts, payloads, permRequests, queryCount>>
  /\ UNCHANGED <<settingsVars, addVars>>

\* readLast24h on any other platform
ReadWeb ==
  /\ os \notin {"ios", "android"}
  /\ BeginCall([fn |-> "readLast24h", window |-> Last24h])
  /\ result' = UnsupportedResult
  /\ pc' = "done"
  /\ UNCHANGED <<posts, payloads, permRequests, q, queryCount>>
  /\ UNCHANGED <<settingsVars, addVars>>

(* ------------------------------ sync.ts -------------------------------- *)

\* canonical samples as the connectors hand them over: what readLast24h
\* makes of three vendor records; the heart-rate one has nested readings and
\* no time property of its own, so its timestamp is an Invalid Date
UploadPool ==
  Range(IOSGlucose([value |-> 78000, unit |-> "mmol/L", startDate |-> 3600,
                    HKWasUserEntered |-> FALSE]))
  \cup Range(AndroidSteps([count |-> 300 * Unit, startTime |-> 0,
                           endTime |-> 300]))
  \cup Range(AndroidHeartRate([samples |-> <<65 * Unit, 70 * Unit>>,
                               startTime |-> 660, endTime |-> 720]))

\* the inserted counts the backend may report, in and out of 0..len
InsertedCounts(n) == (0 - 1)..(n + 1)

\* s.timestamp.toISOString() throws RangeError on an Invalid Date
IsoThrows(samples) == \E i \in 1..Len(samples) : ~samples[i].timestamp.valid

RangeError == [message |-> "Invalid time value"]

IngestOne(s) ==
  [type |-> s.type, timestamp |-> ToISOString(s.timestamp), data |-> s.data]

\* the list serialized back to front
toIngestSamples_backwards(samples) ==
  [i \in 1..Len(samples) |-> IngestOne(samples[Len(samples) + 1 - i])]

toIngestSamples(samples) == [i \in 1..Len(samples) |-> IngestOne(samples[i])]

BuildPayload(opts) ==
  [user_id |-> opts.userId, storage_mode |-> opts.storageMode,
   samples |-> toIngestSamples(opts.samples)]

\* the guard with the mode misspelt: it never matches
ShortCircuits_never(mode) == mode = "local-only"

\* opts.storageMode === "local_only"
ShortCircuits(mode) == mode = "local_only"

LocalOnlyResult(opts) == [uploaded |-> 0, skipped |-> Len(opts.samples)]

\* skipped taken to be the whole batch
UploadResult_keepSkipped(opts, inserted) ==
  [uploaded |-> inserted, skipped |-> Len(opts.samples)]

\* a 2xx answer taken to mean that everything was stored
UploadResult_assumeAll(opts, inserted) ==
  [uploaded |-> Len(opts.samples), skipped |-> 0]

UploadResult(opts, inserted) ==
  [uploaded |-> inserted, skipped |-> Len(opts.samples) - inserted]

\* uploadToBackend, storageMode local_only: immediate return
UploadLocalOnly ==
  /\ pc = "idle"
  /\ \E u \in UserIds, m \in StorageModes,
       ss \in SeqsUpTo(UploadPool, MaxSamples) :
      LET opts == [fn |-> "uploadToBackend", userId |-> u,
                   storageMode |-> m, samples |-> ss] IN
      /\ ShortCircuits(m)
      /\ BeginCall(opts)
      /\ result' = Returned(LocalOnlyResult(opts))
      /\ pc' = "done"
      /\ UNCHANGED <<posts, payloads, permRequests, q, queryCount>>
  /\ UNCHANGED <<settingsVars, addVars>>

\* uploadToBackend, raw / aggregated, serialization throws before the POST
UploadSerializeThrows ==
  /\ pc = "idle"
  /\ \E u \in UserIds, m \in StorageModes,
       ss \in SeqsUpTo(UploadPool, MaxSamples) :
      /\ ~ShortCircuits(m)
      /\ IsoThrows(ss)
      /\ BeginCall([fn |-> "uploadToBackend", userId |-> u,
                    storageMode |-> m, samples |-> ss])
      /\ result' = Threw(RangeError)
      /\ pc' = "done"
      /\ UNCHANGED <<posts, payloads, permRequests, q, queryCount>>
  /\ UNCHANGED <<settingsVars, addVars>>

\* uploadToBackend, raw / aggregated: payload built, POST /samples issued
UploadPost ==
  /\ pc = "idle"
  /\ \E u \in UserIds, m \in StorageModes,
       ss \in SeqsUpTo(UploadPool, MaxSamples) :
      LET opts == [fn |-> "uploadToBackend", userId |-> u,
                   storageMode |-> m, samples |-> ss] IN
      /\ ~ShortCircuits(m)
      /\ ~IsoThrows(ss)
      /\ BeginCall(opts)
      /\ payloads' = payloads + 1
      /\ posts' = Append(posts, [path |-> "/samples", status |-> "pending",
                                  body |-> BuildPayload(opts)])
      /\ pc' = "upload_wait"
      /\ UNCHANGED <<result, permRequests, q, queryCount>>
  /\ UNCHANGED <<settingsVars, addVars>>

\* the POST resolves with {inserted}
PostResolve ==
  /\ pc = "upload_wait"
  /\ \E k \in InsertedCounts(Len(call.samples)) :
    /\ result' = With(Returned(UploadResult(call, k)), [inserted |-> k])
    /\ posts' = [posts EXCEPT ![Len(posts)].status = "ok"]
    /\ pc' = "done"
    /\ UNCHANGED <<os, call, payloads, permRequests, q, queryCount>>
  /\ UNCHANGED <<settingsVars, addVars>>

\* a failed POST sent once more before giving up
AfterPostReject_retry(e) ==
  IF Len(posts) < 2
  THEN [pc |-> "upload_wait", result |-> NoResult,
        posts |-> Append([posts EXCEPT ![Len(posts)].status = "failed"],
                         posts[Len(posts)])]
  ELSE [pc |-> "done", result |-> Threw(e),
        posts |-> [posts EXCEPT ![Len(posts)].status = "failed"]]

\* await api.post(...) on a rejection: the error propagates out of
\* uploadToBackend, nothing is sent again
AfterPostReject(e) ==
  [pc |-> "done", result |-> Threw(e),
   posts |-> [posts EXCEPT ![Len(posts)].status = "failed"]]

\* the POST rejects (non-2xx, timeout, unreachable)
PostReject ==
  \E e \in Errors :
    /\ pc = "upload_wait"
    /\ result' = AfterPostReject(e).result
    /\ pc' = AfterPostReject(e).pc
    /\ posts' = AfterPostReject(e).posts
    /\ UNCHANGED <<os, call, payloads, permRequests, q, queryCount>>
    /\ UNCHANGED <<settingsVars, addVars>>

(* --------------------------- settings screen --------------------------- *)

\* most refreshStatus calls awaiting getConnectorStatus at once
MaxRefreshes == 1

\* most handler invocations in flight at once
MaxRunning == 2

\* longest sample list readLast24h hands to the sync handler
MaxSyncSamples == 2

\* useState("Checking availability...")
Checking == [head |-> "Checking availability..."]

\* refreshStatus: "Available" or `Unavailable: ${s.reason}`
StatusText(s) ==
  IF s.available THEN [head |-> "Available"]
  ELSE [head |-> "Unavailable: ", reason |-> s.reason]

\* connectorStatus.startsWith("Available")
isNative(status) == status.head = "Available"

\* how getConnectorStatus can settle on a platform
StatusResults(platform) ==
  IF platform \in {"ios", "android"}
  THEN {StatusResult(platform, o) : o \in ProbeOutcomes}
  ELSE {StatusResult(platform, [k |-> "none"])}

\* how requestPermissions can settle on a platform
PermResults(platform) ==
  IF platform \in {"ios", "android"}
  THEN {PermResult(platform, o) : o \in ImportThrows \cup PermOutcomes(platform)}
  ELSE {PermResult(platform, [k |-> "none"])}

\* canonical samples readLast24h returns: those of the heart-rate records
SyncPool(platform) ==
  UNION {Range(NormalizeRecord(platform, "heart_rate", r)) :
           r \in VendorRecords(platform, "heart_rate")}

\* how readLast24h can settle on a platform
ReadResults(platform) ==
  IF platform \in {"ios", "android"}
  THEN {ReadImportResult(o) : o \in ImportThrows}
       \cup {AfterQueryReject(e) : e \in Errors}
       \cup {Returned([samples |-> ss]) :
               ss \in SeqsUpTo(SyncPool(platform), MaxSyncSamples)}
  ELSE {UnsupportedResult}

NoInvocation == [fn |-> "none"]

\* a handler invocation: where it waits, what its closure captured (the
\* storageMode and the status of the render it was created in), and what it
\* has done so far: the answer of readLast24h, the uploadToBackend calls,
\* the POSTs (each with the mode the store held when it was issued), the
\* titles of its alerts
Invocation(fn, at) ==
  [fn |-> fn, at |-> at, mode |-> storageMode,
   native |-> isNative(connectorStatus),
   read |-> "pending", samples |-> <<>>, uploads |-> 0, posts |-> <<>>,
   failed |-> FALSE, escaped |-> FALSE, alerts |-> <<>>]

Without(s, i) == SubSeq(s, 1, i - 1) \o SubSeq(s, i + 1, Len(s))

\* disabled={busy} with the guard left out
CanPress_always(b) == TRUE

\* disabled={busy} on the three buttons
CanPress(b) == ~b

\* setBusy(false) as the last statement of the try block instead
BusyAtExit_noFinally(how) == how # "end"

\* finally { setBusy(false) }: runs however the try block is left
\* (how: "end", "return", "caught", "throw")
BusyAtExit(how) == FALSE

Alert(inv, title) == [inv EXCEPT !.alerts = Append(@, title)]

\* the catch block left out: the failure leaves the handler
SyncCatch_rethrow(inv, e) ==
  [how |-> "throw", inv |-> [inv EXCEPT !.escaped = TRUE]]

\* catch (e) { Alert.alert("Sync failed", e?.message ?? "Please try again.") }
SyncCatch(inv, e) == [how |-> "caught", inv |-> Alert(inv, "Sync failed")]

\* readLast24h / uploadToBackend has thrown or rejected
Fails(inv) == [inv EXCEPT !.failed = TRUE]

\* what readLast24h answered
ReadKind(read) ==
  IF read.kind = "threw" THEN "threw"
  ELSE IF "unavailable" \in DOMAIN read.value THEN "unavailable"
  ELSE "samples"

\* the two early returns left out
ReadBranch_noReturn(read) == "upload"

\* the two early returns of onSyncLast24h after the read
ReadBranch(read) ==
  IF "unavailable" \in DOMAIN read.value /\ read.value.unavailable # ""
  THEN "unavailable"
  ELSE IF read.value.samples = <<>> THEN "no_data"
  ELSE "upload"

UploadOpts(inv) ==
  [userId |-> CHOOSE u \in UserIds : TRUE, storageMode |-> inv.mode,
   samples |-> inv.samples]

\* the mount effect and the Refresh button: refreshStatus() starts
RefreshPress ==
  /\ CanPress(busy)
  /\ refreshes < MaxRefreshes
  /\ refreshes' = refreshes + 1
  /\ UNCHANGED <<storageMode, connectorStatus, busy, running, finished>>
  /\ UNCHANGED <<apiVars, addVars>>

\* getConnectorStatus answers a refreshStatus() of the effect / the button
RefreshSettle ==
  /\ refreshes > 0
  /\ \E s \in StatusResults(os) :
       connectorStatus' = StatusText(s.value)
  /\ refreshes' = refreshes - 1
  /\ UNCHANGED <<storageMode, busy, running, finished>>
  /\ UNCHANGED <<apiVars, addVars>>

\* a storage mode chip: setStorageMode(m); the chips are never disabled
SetStorageMode ==
  /\ \E m \in StorageModes : storageMode' = m
  /\ UNCHANGED <<connectorStatus, busy, refreshes, running, finished>>
  /\ UNCHANGED <<apiVars, addVars>>

\* what is kept of an invocation that is over
Summary(inv, how) ==
  [inv EXCEPT !.at = how, !.samples = <<>>,
              !.posts = [p \in DOMAIN inv.posts |->
                           [path |-> inv.posts[p].path,
                            stored |-> inv.posts[p].stored]]]

\* the handler invocation i is over: the finally block has run
Finish(i, inv, how) ==
  /\ running' = Without(running, i)
  /\ finished' = Summary(inv, how)
  /\ busy' = BusyAtExit(how)

\* "Request permissions" pressed: onConnect up to await requestPermissions()
ConnectPress ==
  /\ CanPress(busy)
  /\ Len(running) < MaxRunning
  /\ busy' = TRUE
  /\ running' = Append(running, Invocation("onConnect", "permissions"))
  /\ UNCHANGED <<storageMode, connectorStatus, refreshes, finished>>
  /\ UNCHANGED <<apiVars, addVars>>

\* requestPermissions answers: alert and return, or alert and
\* await refreshStatus()
ConnectPermSettle ==
  /\ \E i \in 1..Len(running), res \in PermResults(os) :
       /\ running[i].fn = "onConnect" /\ running[i].at = "permissions"
       /\ IF ~res.value.granted
          THEN Finish(i, Alert(running[i], "Permissions not granted"), "return")
          ELSE /\ running' = [running EXCEPT
                                ![i] = Alert([@ EXCEPT !.at = "status"],
                                             "Connected")]
               /\ UNCHANGED <<busy, finished>>
  /\ UNCHANGED <<storageMode, connectorStatus, refreshes>>
  /\ UNCHANGED <<apiVars, addVars>>

\* getConnectorStatus answers the refreshStatus() of onConnect
ConnectStatusSettle ==
  /\ \E i \in 1..Len(running), s \in StatusResults(os) :
       /\ running[i].fn = "onConnect" /\ running[i].at = "status"
       /\ connectorStatus' = StatusText(s.value)
       /\ Finish(i, running[i], "end")
  /\ UNCHANGED <<storageMode, refreshes>>
  /\ UNCHANGED <<apiVars, addVars>>

\* onSyncLast24h up to await readLast24h({start, end})
SyncStart ==
  /\ Len(running) < MaxRunning
  /\ busy' = TRUE
  /\ running' = Append(running, Invocation("onSyncLast24h", "read"))
  /\ UNCHANGED <<storageMode, connectorStatus, refreshes, finished>>
  /\ UNCHANGED <<apiVars, addVars>>

\* "Sync last 24h to dashboard" pressed: disabled={busy || !isNative}
SyncPress ==
  /\ CanPress(busy)
  /\ isNative(connectorStatus)
  /\ SyncStart

\* onSyncLast24h called while its button is disabled for want of a
\* connector
SyncInvoke ==
  /\ CanPress(busy)
  /\ ~isNative(connectorStatus)
  /\ SyncStart

\* await uploadToBackend({userId, storageMode, samples: read.samples}) up to
\* the POST, and what follows when there is none
CallUpload(inv) ==
  LET opts == UploadOpts(inv)
      called == [inv EXCEPT !.uploads = @ + 1]
  IN IF ShortCircuits(opts.storageMode)
     THEN [how |-> "end", inv |-> Alert(called, "Sync complete")]
     ELSE IF IsoThrows(opts.samples)
     THEN SyncCatch(Fails(called), RangeError)
     ELSE [how |-> "await",
           inv |-> [called EXCEPT
                      !.at = "post",
                      !.posts = Append(@,
                        [path |-> "/samples", body |-> BuildPayload(opts),
                         stored |-> storageMode])]]

\* onSyncLast24h from the answer of readLast24h to its next await or its end
AfterRead(inv, read) ==
  IF read.kind = "threw"
  THEN SyncCatch(Fails([inv EXCEPT !.read = ReadKind(read)]), read.error)
  ELSE LET branch == ReadBranch(read)
           seen == [inv EXCEPT !.read = ReadKind(read),
                               !.samples = read.value.samples]
       IN IF branch = "unavailable"
          THEN [how |-> "return", inv |-> Alert(seen, "Unavailable")]
          ELSE IF branch = "no_data"
          THEN [how |-> "return", inv |-> Alert(seen, "No data")]
          ELSE CallUpload(seen)

\* readLast24h settles
SyncReadSettle ==
  /\ \E i \in 1..Len(running), read \in ReadResults(os) :
       /\ running[i].fn = "onSyncLast24h" /\ running[i].at = "read"
       /\ LET next == AfterRead(running[i], read) IN
          IF next.how = "await"
          THEN /\ running' = [running EXCEPT ![i] = next.inv]
               /\ UNCHANGED <<busy, finished>>
          ELSE Finish(i, next.inv, next.how)
  /\ UNCHANGED <<storageMode, connectorStatus, refreshes>>
  /\ UNCHANGED <<apiVars, addVars>>

\* the POST of uploadToBackend resolves: "Sync complete"
SyncPostResolve ==
  /\ \E i \in 1..Len(running) :
       /\ running[i].fn = "onSyncLast24h" /\ running[i].at = "post"
       /\ \E k \in InsertedCounts(Len(running[i].samples)) :
            Finish(i, Alert(running[i], "Sync complete"), "end")
  /\ UNCHANGED <<storageMode, connectorStatus, refreshes>>
  /\ UNCHANGED <<apiVars, addVars>>

\* the POST of uploadToBackend rejects: caught
SyncPostReject ==
  /\ \E i \in 1..Len(running), e \in Errors :
       /\ running[i].fn = "onSyncLast24h" /\ running[i].at = "post"
       /\ Finish(i, SyncCatch(Fails(running[i]), e).inv,
                 SyncCatch(Fails(running[i]), e).how)
  /\ UNCHANGED <<storageMode, connectorStatus, refreshes>>
  /\ UNCHANGED <<apiVars, addVars>>

(* ------------------------------ add screen ----------------------------- *)

\* most edits of the form's fields over one visit of the screen
MaxEdits == 2

\* what a numeric field can hold: nothing, a number, something else
FieldTexts == {"", "120", "abc"}

\* Number(s) of the texts that are numbers
TextNumber == [n \in {"120"} |-> 120 * Unit]

\* toNum: the number a text denotes, or undefined (written NaN here: toNum
\* never returns a NaN) for no text, an empty text and a text that is no
\* finite number
toNum(text) == IF text \in DOMAIN TextNumber THEN TextNumber[text] ELSE NaN

\* x ?? 0
OrZero(x) == IF x = NaN THEN 0 ELSE x

\* s || undefined
OrUndefined(text) == IF text = "" THEN Undefined ELSE text

\* the minutes isoNowLocalMinute() can give over a visit, the first being
\* that of the first render, and the texts the timestamp field can hold
FirstMinute == "2024-01-01T10:00"

Minutes == {FirstMinute, "2024-01-01T10:01"}

TimestampTexts == Minutes \cup {""}

\* useForm defaultValues: timestamp and glucoseSource; the rest undefined
InitialForm(now) ==
  [timestamp |-> now, glucoseSource |-> "manual", glucose |-> Undefined,
   bpm |-> Undefined, systolic |-> Undefined, diastolic |-> Undefined,
   spm |-> Undefined, exerciseMinutes |-> Undefined,
   ecgAvgBpm |-> Undefined, ecgClassification |-> Undefined]

\* the text fields rendered for the selected type
FieldsOf(t) ==
  CASE t = "blood_glucose" -> {"glucose"}
    [] t = "heart_rate" -> {"bpm"}
    [] t = "blood_pressure" -> {"systolic", "diastolic"}
    [] t = "steps" -> {"spm"}
    [] t = "exercise_minutes" -> {"exerciseMinutes"}
    [] t = "ecg" -> {"ecgAvgBpm", "ecgClassification"}

\* the data of the useMemo callback for type t over the field values f
PreviewData(t, f) ==
  CASE t = "blood_glucose" ->
         [mg_dl |-> OrZero(toNum(f.glucose)), source |-> f.glucoseSource]
    [] t = "heart_rate" -> [bpm |-> OrZero(toNum(f.bpm))]
    [] t = "blood_pressure" ->
         [systolic_mmhg |-> OrZero(toNum(f.systolic)),
          diastolic_mmhg |-> OrZero(toNum(f.diastolic))]
    [] t = "steps" -> [spm |-> OrZero(toNum(f.spm))]
    [] t = "exercise_minutes" ->
         [minutes |-> OrZero(toNum(f.exerciseMinutes))]
    [] t = "ecg" ->
         [average_bpm |-> toNum(f.ecgAvgBpm),
          classification |-> IF f.ecgClassification = Undefined THEN Undefined
                             ELSE OrUndefined(f.ecgClassification)]

\* the useMemo callback: ts || isoNowLocalMinute()
Preview(t, f, now) ==
  [type |-> t, timestamp |-> IF f.timestamp = "" THEN now ELSE f.timestamp,
   data |-> PreviewData(t, f)]

\* useMemo(..., [ts, type, watch]): computed again when ts or type
\* differ from those of the last computation (watch is the same function at every
\* render), the cached value otherwise
Memo(cached, t, f, now) ==
  IF cached.type # t \/ cached.ts # f.timestamp
  THEN [type |-> t, ts |-> f.timestamp, value |-> Preview(t, f, now)]
  ELSE cached

\* the required-field checks of onSubmit: the type's number is missing
MissingValue(t, f) ==
  CASE t = "blood_glucose" -> toNum(f.glucose) = NaN
    [] t = "heart_rate" -> toNum(f.bpm) = NaN
    [] t = "blood_pressure" ->
         toNum(f.systolic) = NaN \/ toNum(f.diastolic) = NaN
    [] t = "steps" -> toNum(f.spm) = NaN
    [] t = "exercise_minutes" -> toNum(f.exerciseMinutes) = NaN
    [] t = "ecg" -> FALSE

\* the values the fields of type t hold, as onSubmit reads them for its
\* checks: toNum(watch(field)) of each
Entered(t, f) ==
  CASE t = "blood_glucose" ->
         [mg_dl |-> toNum(f.glucose), source |-> f.glucoseSource]
    [] t = "heart_rate" -> [bpm |-> toNum(f.bpm)]
    [] t = "blood_pressure" ->
         [systolic_mmhg |-> toNum(f.systolic),
          diastolic_mmhg |-> toNum(f.diastolic)]
    [] t = "steps" -> [spm |-> toNum(f.spm)]
    [] t = "exercise_minutes" -> [minutes |-> toNum(f.exerciseMinutes)]
    [] t = "ecg" -> PreviewData(t, f)

\* the zod schema: timestamp is a string of at least 5 characters
SchemaAccepts(f) == f.timestamp # ""

\* the last onSubmit: a pending POST with the values just checked, or the
\* alert it ended with
NoSubmit == [at |-> "none"]

\* a type chip: setType(t)
SetType ==
  /\ \E t \in SampleTypes, now \in Minutes :
       /\ selectedType' = t
       /\ samplePreview' = Memo(samplePreview, t, form, now)
  /\ UNCHANGED <<form, submitting, edits, submitted>>
  /\ UNCHANGED <<apiVars, settingsVars>>

\* text typed into one of the value fields of the selected type
EditValue ==
  /\ edits < MaxEdits
  /\ \E f \in FieldsOf(selectedType), text \in FieldTexts, now \in Minutes :
       /\ form' = [form EXCEPT ![f] = text]
       /\ samplePreview' = Memo(samplePreview, selectedType, form', now)
  /\ edits' = edits + 1
  /\ UNCHANGED <<selectedType, submitting, submitted>>
  /\ UNCHANGED <<apiVars, settingsVars>>

\* a source chip of the glucose card: setValue("glucoseSource", v)
SetGlucoseSource ==
  /\ selectedType = "blood_glucose"
  /\ edits < MaxEdits
  /\ \E v \in {"manual", "cgm"}, now \in Minutes :
       /\ form' = [form EXCEPT !.glucoseSource = v]
       /\ samplePreview' = Memo(samplePreview, selectedType, form', now)
  /\ edits' = edits + 1
  /\ UNCHANGED <<selectedType, submitting, submitted>>
  /\ UNCHANGED <<apiVars, settingsVars>>

\* text typed into the timestamp field
EditTimestamp ==
  /\ edits < MaxEdits
  /\ \E text \in TimestampTexts, now \in Minutes :
       /\ form' = [form EXCEPT !.timestamp = text]
       /\ samplePreview' = Memo(samplePreview, selectedType, form', now)
  /\ edits' = edits + 1
  /\ UNCHANGED <<selectedType, submitting, submitted>>
  /\ UNCHANGED <<apiVars, settingsVars>>

\* "Save sample" pressed with a form the schema accepts and the type's
\* number missing: alert, return
SubmitMissing ==
  /\ ~submitting
  /\ SchemaAccepts(form)
  /\ MissingValue(selectedType, form)
  /\ submitted' = [at |-> "return", alert |-> "Missing value"]
  /\ UNCHANGED <<selectedType, form, samplePreview, submitting, edits>>
  /\ UNCHANGED <<apiVars, settingsVars>>

\* "Save sample" pressed with a form that passes the checks: the POST
SubmitPost ==
  /\ ~submitting
  /\ SchemaAccepts(form)
  /\ ~MissingValue(selectedType, form)
  /\ submitting' = TRUE
  /\ submitted' = [at |-> "post", type |-> selectedType,
                   entered |-> Entered(selectedType, form),
                   post |-> [path |-> "/samples",
                             body |-> [user_id |-> CHOOSE u \in UserIds : TRUE,
                                       storage_mode |-> storageMode,
                                       samples |-> <<samplePreview.value>>],
                             stored |-> storageMode]]
  /\ UNCHANGED <<selectedType, form, samplePreview, edits>>
  /\ UNCHANGED <<apiVars, settingsVars>>

\* the POST resolves: "Saved", setValue("timestamp", isoNowLocalMinute())
AddPostResolve ==
  /\ submitting
  /\ submitted.at = "post"
  /\ \E now \in Minutes :
       /\ form' = [form EXCEPT !.timestamp = now]
       /\ samplePreview' = Memo(samplePreview, selectedType, form', now)
  /\ submitted' = [at |-> "end", alert |-> "Saved"]
  /\ submitting' = FALSE
  /\ UNCHANGED <<selectedType, edits>>
  /\ UNCHANGED <<apiVars, settingsVars>>

\* the POST rejects: caught, alert
AddPostReject ==
  /\ submitting
  /\ submitted.at = "post"
  /\ submitted' = [at |-> "caught", alert |-> "Couldn't save"]
  /\ submitting' = FALSE
  /\ UNCHANGED <<selectedType, form, samplePreview, edits>>
  /\ UNCHANGED <<apiVars, settingsVars>>

(* --------------------------- the state machine ------------------------- *)

\* the caller has the outcome; the next call starts from clean logs
Return ==
  /\ pc = "done"
  /\ pc' = "idle"
  /\ call' = NoCall
  /\ result' = NoResult
  /\ posts' = <<>>
  /\ payloads' = 0
  /\ permRequests' = <<>>
  /\ q' = NoQueries
  /\ queryCount' = NoCounts
  /\ UNCHANGED os
  /\ UNCHANGED <<settingsVars, addVars>>

\* no exported function has been called
ApiInit ==
  /\ os \in Platforms
  /\ pc = "idle"
  /\ call = NoCall
  /\ result = NoResult
  /\ posts = <<>>
  /\ payloads = 0
  /\ permRequests = <<>>
  /\ q = NoQueries
  /\ queryCount = NoCounts

\* the settings screen with nothing pressed; the stored mode is the one
\* persisted by an earlier run, `effects` refreshStatus() calls are under way
SettingsInit(modes, effects) ==
  /\ storageMode \in modes
  /\ connectorStatus = Checking
  /\ busy = FALSE
  /\ refreshes = effects
  /\ running = <<>>
  /\ finished = NoInvocation

\* the add screen after its first render
AddInit ==
  /\ selectedType = "blood_glucose"
  /\ form = InitialForm(FirstMinute)
  /\ samplePreview = [type |-> selectedType, ts |-> FirstMinute,
                      value |-> Preview(selectedType, form, FirstMinute)]
  /\ submitting = FALSE
  /\ edits = 0
  /\ submitted = NoSubmit

Init ==
  /\ ApiInit
  /\ SettingsInit({"raw"}, 0)
  /\ AddInit

Next ==
  \/ UploadLocalOnly
  \/ UploadSerializeThrows
  \/ UploadPost
  \/ PostResolve
  \/ PostReject
  \/ StatusCall
  \/ StatusSettle
  \/ StatusWeb
  \/ PermImportThrows
  \/ PermCall
  \/ PermSettle
  \/ PermWeb
  \/ ReadImportThrows
  \/ ReadCall
  \/ QueryResolve
  \/ QueryReject
  \/ ReadWeb
  \/ Return

Spec == Init /\ [][Next]_vars

\* the settings screen, mounted: its effect has called refreshStatus()
SettingsSpecInit ==
  /\ ApiInit
  /\ SettingsInit(StorageModes, 1)
  /\ AddInit

SettingsNext ==
  \/ RefreshPress
  \/ RefreshSettle
  \/ SetStorageMode
  \/ ConnectPress
  \/ ConnectPermSettle
  \/ ConnectStatusSettle
  \/ SyncPress
  \/ SyncReadSettle
  \/ SyncPostResolve
  \/ SyncPostReject

SettingsSpec == SettingsSpecInit /\ [][SettingsNext]_vars

\* the settings screen with onSyncLast24h also called on its own
HandlerNext ==
  \/ SettingsNext
  \/ SyncInvoke

HandlerSpec == SettingsSpecInit /\ [][HandlerNext]_vars

\* the add screen, with the storage mode chips of the settings screen
AddSpecInit ==
  /\ ApiInit
  /\ SettingsInit(StorageModes, 0)
  /\ AddInit

AddNext ==
  \/ SetStorageMode
  \/ SetType
  \/ EditValue
  \/ SetGlucoseSource
  \/ EditTimestamp
  \/ SubmitMissing
  \/ SubmitPost
  \/ AddPostResolve
  \/ AddPostReject

AddSpec == AddSpecInit /\ [][AddNext]_vars

(* ------------------------------- properties ---------------------------- *)

IsUpload == call.fn = "uploadToBackend"

IsStatus == call.fn = "getConnectorStatus"

IsPermissions == call.fn = "requestPermissions"

IsRead == call.fn = "readLast24h"

\* C1: every result uploadToBackend returns, whatever the storage mode, the
\* sample list and the inserted count the backend reported, has
\* uploaded + skipped equal to the number of input samples.
C1_Accounting ==
  (IsUpload /\ result.kind = "returned")
    => result.value.uploaded + result.value.skipped = Len(call.samples)

\* a networked upload answered with an inserted count above the batch size
C1_Witness ==
  /\ IsUpload /\ result.kind = "returned"
  /\ call.storageMode = "aggregated"
  /\ Len(call.samples) = 2
  /\ result.outcome.inserted = 3

\* C2: a call with storageMode local_only issues no request, builds no
\* payload and returns uploaded = 0, skipped = number of input samples.
C2_LocalOnly ==
  (IsUpload /\ call.storageMode = "local_only")
    => /\ posts = <<>>
       /\ payloads = 0
       /\ pc = "done"
       /\ result.kind = "returned"
       /\ result.value = [uploaded |-> 0, skipped |-> Len(call.samples)]

\* a local_only call over a full batch has returned
C2_Witness ==
  /\ IsUpload /\ call.storageMode = "local_only"
  /\ Len(call.samples) = MaxSamples
  /\ pc = "done"

\* C3: with storageMode raw or aggregated and a POST that succeeded with
\* inserted = k, the result is uploaded = k, skipped = len - k.
C3_InsertedCount ==
  (IsUpload /\ call.storageMode \in {"raw", "aggregated"}
     /\ posts # <<>> /\ posts[1].status = "ok")
    => /\ result.kind = "returned"
       /\ result.value.uploaded = result.outcome.inserted
       /\ result.value.skipped = Len(call.samples) - result.outcome.inserted

\* 5 samples, raw, inserted 3: {uploaded: 3, skipped: 2}
C3_Witness ==
  /\ IsUpload /\ call.storageMode = "raw"
  /\ Len(call.samples) = 5
  /\ posts # <<>> /\ posts[1].status = "ok"
  /\ result.outcome.inserted = 3
  /\ result.value = [uploaded |-> 3, skipped |-> 2]

\* C4: a call with storageMode raw or aggregated issues exactly one
\* POST /samples whose body has the given user id and mode and one wire
\* sample per input sample, in order.
C4_OnePostPerCall ==
  (IsUpload /\ call.storageMode \in {"raw", "aggregated"}
     /\ pc \in {"upload_wait", "done"})
    => /\ Len(posts) = 1
       /\ posts[1].path = "/samples"
       /\ posts[1].body.user_id = call.userId
       /\ posts[1].body.storage_mode = call.storageMode
       /\ Len(posts[1].body.samples) = Len(call.samples)
       /\ \A i \in 1..Len(call.samples) :
            /\ posts[1].body.samples[i].type = call.samples[i].type
            /\ posts[1].body.samples[i].data = call.samples[i].data
            /\ call.samples[i].timestamp.valid
            /\ ParseISO(posts[1].body.samples[i].timestamp)
                 = call.samples[i].timestamp.t

\* C5: a POST that fails fails the whole call: it is the only request of
\* the call, the call is over and its outcome is the error, not a result.
C5_SingleAttempt ==
  \A i \in 1..Len(posts) :
    posts[i].status = "failed"
      => /\ Len(posts) = 1
         /\ pc = "done"
         /\ result.kind = "threw"

\* the POST of a two-sample batch was rejected
C5_Witness ==
  /\ IsUpload /\ Len(call.samples) = 2
  /\ posts # <<>> /\ posts[1].status = "failed"

Settled(c) == q[c].st \in {"fulfilled", "rejected"}

\* C6: when the query of one category has failed and those of all the
\* others have succeeded, readLast24h has returned the normalized samples
\* of the others and none of the failed category.
C6_PartialDegradation ==
  (IsRead /\ pc = "done"
     /\ (\A c \in Queried(os) : Settled(c))
     /\ Cardinality({d \in Queried(os) : q[d].st = "rejected"}) = 1)
    => /\ result.kind = "returned"
       /\ result.value.samples = ReadSamples(os, q)

\* C7: when the platform module is missing or unusable, so that no query
\* can be issued, readLast24h returns {samples: [], unavailable: reason}.
C7_UnavailableReturned ==
  (IsRead /\ pc = "done" /\ \A c \in Categories : q[c].st = "none")
    => /\ result.kind = "returned"
       /\ "unavailable" \in DOMAIN result.value
       /\ result.value.unavailable # Undefined
       /\ result.value.samples = <<>>

\* C8: getConnectorStatus returns, for every platform and every outcome of
\* the import and the probe, {available: true} or {available: false,
\* reason} with a reason string.
C8_StatusNeverFails ==
  (IsStatus /\ pc = "done")
    => /\ result.kind = "returned"
       /\ \/ result.value = [available |-> TRUE]
          \/ /\ DOMAIN result.value = {"available", "reason"}
             /\ result.value.available = FALSE
             /\ result.value.reason # Undefined

\* on ios the import threw a value without a message
C8_Witness ==
  /\ IsStatus /\ pc = "done" /\ os = "ios"
  /\ result.outcome.k = "import_throws"
  /\ result.outcome.e.message = Undefined
  /\ result.value.reason = "HealthKit module not available"

\* C9: requestPermissions returns in every case, and whenever access is
\* not granted the result carries a reason.
C9_DenialHasReason ==
  (IsPermissions /\ pc = "done")
    => /\ result.kind = "returned"
       /\ ~result.value.granted
            => /\ "reason" \in DOMAIN result.value
               /\ result.value.reason # Undefined

RequestedCategories(request) == {CategoryOf(p) : p \in Range(request)}

\* C10 as stated: the one permission request of a call covers all six
\* categories on both platforms.
C10_AllSixCategories ==
  (IsPermissions /\ permRequests # <<>>)
    => /\ Len(permRequests) = 1
       /\ RequestedCategories(permRequests[1]) = Categories

\* C10: the one permission request of a call covers all six categories on
\* ios, and the five categories other than ECG on android.
C10_PermissionBatch ==
  (IsPermissions /\ permRequests # <<>>)
    => /\ Len(permRequests) = 1
       /\ RequestedCategories(permRequests[1])
            = IF os = "ios" THEN Categories ELSE Categories \ {"ecg"}

\* on android the request was made and answered with one grant
C10_Witness ==
  /\ IsPermissions /\ pc = "done" /\ os = "android"
  /\ Len(permRequests) = 1
  /\ result.outcome.k = "answer"
  /\ result.outcome.granted = {"Steps"}

\* C11: readLast24h is a join: once its queries are issued, the call is
\* over (returned or failed) only when none of them is still pending, also
\* when one of them has failed.
C11_JoinNotRace ==
  (IsRead /\ pc = "done")
    => \A c \in Categories : q[c].st # "pending"

(* ------------------- properties of the returned samples ---------------- *)

\* readLast24h has run its mapping loops over the answers held in q
ReadReturned ==
  /\ IsRead /\ pc = "done"
  /\ os \in {"ios", "android"}
  /\ result.kind = "returned"
  /\ AllFulfilled(os, q)

TypeOf(c) ==
  CASE c = "glucose" -> "blood_glucose"
    [] c = "exercise" -> "exercise_minutes"
    [] OTHER -> c

\* the samples of one category among those returned, in returned order
OfCategory(c) ==
  SelectSeq(result.value.samples, LAMBDA s : s.type = TypeOf(c))

\* the instant a vendor record is stamped with
RecordTime(platform, c, r) ==
  IF platform = "ios" THEN DateOf(r, "startDate")
  ELSE IF c \in {"steps", "exercise"} THEN DateOf(r, "startTime")
  ELSE DateOf(r, "time")

\* the samples returned for the vendor record r of category c
SamplesFor(c, r) ==
  SelectSeq(OfCategory(c), LAMBDA s : s.timestamp = RecordTime(os, c, r))

\* the vendor gives the glucose reading in mmol/L
IsMmol(platform, g) ==
  IF platform = "ios"
  THEN Has(g, "value") /\ Has(g, "unit") /\ g.unit \in {"mmolPerL", "mmol/L"}
  ELSE Has(g, "inMmolPerL") /\ ~Has(g, "inMgPerDl")

\* the vendor gives the glucose reading in mg/dL
IsMgDl(platform, g) ==
  IF platform = "ios"
  THEN Has(g, "value") /\ ~(Has(g, "unit") /\ g.unit \in {"mmolPerL", "mmol/L"})
  ELSE Has(g, "inMgPerDl")

GlucoseValue(platform, g) ==
  IF platform = "ios" THEN g.value
  ELSE IF Has(g, "inMgPerDl") THEN g.inMgPerDl ELSE g.inMmolPerL

\* C12: every glucose record given in mmol/L, the value 0 included, comes
\* back as a blood_glucose sample with mg_dl = value * 18.018, and every
\* record given in mg/dL comes back with its value unchanged.
C12_MmolConversion ==
  ReadReturned =>
    \A i \in 1..Len(q["glucose"].recs) :
      LET g == q["glucose"].recs[i]
          out == SamplesFor("glucose", g)
      IN /\ IsMmol(os, g) =>
              /\ out # <<>>
              /\ \A j \in 1..Len(out) :
                   out[j].data.mg_dl
                     = (GlucoseValue(os, g) * MmolFactorMilli) \div 1000
         /\ IsMgDl(os, g) =>
              /\ out # <<>>
              /\ \A j \in 1..Len(out) :
                   out[j].data.mg_dl = GlucoseValue(os, g)

\* the vendor record says in so many words that the user typed the reading
MarkedUserEntered(platform, g) ==
  IF platform = "ios"
  THEN Has(g, "HKWasUserEntered") /\ g.HKWasUserEntered
  ELSE Has(g, "recordingMethod") /\ g.recordingMethod = "manual_entry"

\* C13: a returned blood_glucose sample has source manual exactly when its
\* vendor record is marked user-entered; without that mark, and also
\* without any origin metadata, the source is cgm.
C13_SourceTag ==
  ReadReturned =>
    \A i \in 1..Len(q["glucose"].recs) :
      LET g == q["glucose"].recs[i]
          out == SamplesFor("glucose", g)
      IN \A j \in 1..Len(out) :
           out[j].data.source
             = IF MarkedUserEntered(os, g) THEN "manual" ELSE "cgm"

\* the blood-pressure record carries both values
IsCompleteBP(platform, b) ==
  IF platform = "ios"
  THEN Has(b, "bloodPressureSystolicValue")
       /\ Has(b, "bloodPressureDiastolicValue")
  ELSE Has(b, "systolic") /\ Has(b, "diastolic")

\* C14: the returned blood_pressure samples are as many as the complete
\* vendor records, and each has a systolic and a diastolic number.
C14_IncompleteBPDropped ==
  ReadReturned =>
    /\ Len(OfCategory("blood_pressure"))
         = Len(SelectSeq(q["blood_pressure"].recs,
                         LAMBDA b : IsCompleteBP(os, b)))
    /\ \A j \in 1..Len(OfCategory("blood_pressure")) :
         /\ OfCategory("blood_pressure")[j].data.systolic_mmhg # NaN
         /\ OfCategory("blood_pressure")[j].data.diastolic_mmhg # NaN

\* the end of a vendor record's interval
RecordEnd(platform, r) ==
  IF platform = "ios" THEN DateOf(r, "endDate") ELSE DateOf(r, "endTime")

\* the count of a steps record
StepCount(platform, r) ==
  IF platform = "ios" THEN Num(r, "value") ELSE Num(r, "count")

\* C15: the sample of every steps record has interval_minutes = max(1,
\* minutes of the record's interval) and spm = count / interval_minutes.
C15_StepsRate ==
  ReadReturned =>
    \A i \in 1..Len(q["steps"].recs) :
      LET r == q["steps"].recs[i]
          out == SamplesFor("steps", r)
          minutes == Max(1, RoundMinutes(RecordTime(os, "steps", r),
                                         RecordEnd(os, r)))
      IN (StepCount(os, r) # NaN) =>
           /\ out # <<>>
           /\ \A j \in 1..Len(out) :
                /\ out[j].data.interval_minutes = minutes
                /\ out[j].data.interval_minutes >= 1
                /\ out[j].data.spm = StepCount(os, r) \div minutes

\* C16: the sample of every exercise record has minutes = the record's
\* interval rounded to whole minutes and floored at 0: a whole number >= 0.
C16_ExerciseMinutes ==
  ReadReturned =>
    \A i \in 1..Len(q["exercise"].recs) :
      LET ex == q["exercise"].recs[i]
          out == SamplesFor("exercise", ex)
          minutes == Max(0, RoundMinutes(RecordTime(os, "exercise", ex),
                                         RecordEnd(os, ex)))
      IN /\ out # <<>>
         /\ \A j \in 1..Len(out) :
              /\ out[j].data.minutes = minutes * Unit
              /\ out[j].data.minutes >= 0
              /\ out[j].data.minutes % Unit = 0

\* the scalar beats-per-minute of a heart-rate record
HasScalarBpm(platform, h) ==
  IF platform = "ios" THEN Has(h, "value") ELSE Has(h, "beatsPerMinute")

ScalarBpm(platform, h) ==
  IF platform = "ios" THEN h.value ELSE h.beatsPerMinute

HasNestedBpm(h) == Has(h, "samples") /\ Len(h.samples) > 0

\* C17: a heart-rate record with a scalar bpm comes back with that bpm; one
\* with only nested readings comes back with the first of them; one with
\* neither comes back as no sample.
C17_HeartRateBpm ==
  ReadReturned =>
    \A i \in 1..Len(q["heart_rate"].recs) :
      LET h == q["heart_rate"].recs[i]
          out == SamplesFor("heart_rate", h)
      IN IF HasScalarBpm(os, h)
         THEN /\ out # <<>>
              /\ \A j \in 1..Len(out) : out[j].data.bpm = ScalarBpm(os, h)
         ELSE IF HasNestedBpm(h)
         THEN /\ out # <<>>
              /\ \A j \in 1..Len(out) : out[j].data.bpm = h.samples[1]
         ELSE out = <<>>

\* the record carries the number its category cannot do without
HasMandatory(platform, c, r) ==
  CASE c = "glucose" -> IsMmol(platform, r) \/ IsMgDl(platform, r)
    [] c = "heart_rate" -> HasScalarBpm(platform, r) \/ HasNestedBpm(r)
    [] c = "steps" -> StepCount(platform, r) # NaN
    [] OTHER -> TRUE

\* the number a sample of the three categories is about
MainNumber(s) ==
  CASE s.type = "blood_glucose" -> s.data.mg_dl
    [] s.type = "heart_rate" -> s.data.bpm
    [] s.type = "steps" -> s.data.spm

\* C18: the glucose, heart-rate and steps samples returned are as many as
\* the records that carry their mandatory number, and none of them has an
\* invalid number: a record without it is left out, the rest are kept.
C18_MissingNumberExcluded ==
  ReadReturned =>
    \A c \in {"glucose", "heart_rate", "steps"} :
      /\ Len(OfCategory(c))
           = Len(SelectSeq(q[c].recs, LAMBDA r : HasMandatory(os, c, r)))
      /\ \A j \in 1..Len(OfCategory(c)) : MainNumber(OfCategory(c)[j]) # NaN

\* the optional fields of an ecg sample and the vendor property of each
ECGVendorField ==
  [average_bpm |-> "averageHeartRate",
   classification |-> "classification",
   sampling_hz |-> "samplingFrequency",
   voltage_samples |-> "voltageMeasurements"]

\* C19: the ecg samples returned are one per ECG vendor record, in order,
\* and the optional fields of each are exactly those whose vendor property
\* the record has, with the vendor's values.
C19_ECGPassthrough ==
  ReadReturned =>
    /\ Len(OfCategory("ecg")) = Len(q["ecg"].recs)
    /\ \A i \in 1..Len(q["ecg"].recs) :
         LET e == q["ecg"].recs[i]
             s == OfCategory("ecg")[i]
         IN /\ s.timestamp = DateOf(e, "startDate")
            /\ DOMAIN s.data
                 = {k \in DOMAIN ECGVendorField : Has(e, ECGVendorField[k])}
            /\ \A k \in DOMAIN s.data : s.data[k] = e[ECGVendorField[k]]

\* an ECG record with a classification and nothing else came back with a
\* classification and nothing else, after a record with all four fields
C19_Witness ==
  /\ ReadReturned /\ os = "ios"
  /\ Len(q["ecg"].recs) = 2
  /\ DOMAIN q["ecg"].recs[1] \cap Range(ECGVendorField) = Range(ECGVendorField)
  /\ DOMAIN q["ecg"].recs[2] \cap Range(ECGVendorField) = {"classification"}
  /\ DOMAIN OfCategory("ecg")[2].data = {"classification"}
  /\ OfCategory("ecg")[1].data.average_bpm = 64 * Unit

\* the strictly increasing maps from 1..n into 1..m
Embeddings(n, m) ==
  {f \in [1..n -> 1..m] : \A a, b \in 1..n : a < b => f[a] < f[b]}

\* C20: in every category the samples returned follow the order of the
\* vendor records they come from: sample after sample is stamped as record
\* after record, with the dropped records skipped.
C20_OrderPreserved ==
  ReadReturned =>
    \A c \in Queried(os) :
      \E f \in Embeddings(Len(OfCategory(c)), Len(q[c].recs)) :
        \A j \in 1..Len(OfCategory(c)) :
          /\ OfCategory(c)[j].timestamp = RecordTime(os, c, q[c].recs[f[j]])
          /\ <<OfCategory(c)[j]>> = NormalizeRecord(os, c, q[c].recs[f[j]])

\* three glucose records on android, the middle one without a usable
\* value: the other two came back, the earlier record's sample first
C20_Witness ==
  /\ ReadReturned /\ os = "android"
  /\ Len(q["glucose"].recs) = 3
  /\ ~HasMandatory(os, "glucose", q["glucose"].recs[2])
  /\ IsMgDl(os, q["glucose"].recs[1])
  /\ IsMmol(os, q["glucose"].recs[3])
  /\ Len(OfCategory("glucose")) = 2
  /\ OfCategory("glucose")[1].data.mg_dl = 100 * Unit
  /\ OfCategory("glucose")[2].data.mg_dl = 1405404

\* C21: the wire samples toIngestSamples builds are as many as the input
\* samples, and the i-th has the type and the data of the i-th input and
\* the ISO-8601 string of its instant as timestamp.
C21_WireOneToOne ==
  \A p \in 1..Len(posts) :
    LET wire == posts[p].body.samples IN
    /\ IsUpload
    /\ Len(wire) = Len(call.samples)
    /\ \A i \in 1..Len(wire) :
         /\ wire[i].type = call.samples[i].type
         /\ wire[i].data = call.samples[i].data
         /\ wire[i].timestamp = ToISOString(call.samples[i].timestamp)
         /\ ParseISO(wire[i].timestamp) = call.samples[i].timestamp.t

\* a batch of three samples, a glucose, a steps and a glucose one, was
\* serialized
C21_Witness ==
  /\ IsUpload /\ posts # <<>>
  /\ Len(call.samples) = 3
  /\ call.samples[1].type = "blood_glucose"
  /\ call.samples[2].type = "steps"
  /\ call.samples[3].type = "blood_glucose"
  /\ posts[1].body.samples[2].type = "steps"

\* the dynamic import of the platform module failed
ImportFailed ==
  /\ "outcome" \in DOMAIN result
  /\ result.outcome.k = "import_throws"

\* C23 as stated: a readLast24h call on ios or android that loaded its
\* platform module issues exactly one vendor query for each of the six
\* categories.
C23_SixQueries ==
  (IsRead /\ os \in {"ios", "android"} /\ pc \in {"read_wait", "done"}
     /\ ~ImportFailed)
    => \A c \in Categories : queryCount[c] = 1

\* C23: a readLast24h call that loaded its platform module issues exactly
\* one vendor query for each of the six categories on ios, and exactly one
\* for each of the five categories other than ECG, and none for ECG, on
\* android.
C23_OneQueryPerCategory ==
  (IsRead /\ os \in {"ios", "android"} /\ pc \in {"read_wait", "done"}
     /\ ~ImportFailed)
    => \A c \in Categories :
         queryCount[c] = IF os = "ios" \/ c # "ecg" THEN 1 ELSE 0

\* on ios all six queries were issued and have answered
C23_Witness ==
  /\ IsRead /\ os = "ios" /\ pc = "done"
  /\ result.kind = "returned"
  /\ \A c \in Categories : q[c].st = "fulfilled" /\ queryCount[c] = 1

\* C25: every result uploadToBackend returns has 0 <= uploaded <= number of
\* input samples and skipped >= 0, whatever inserted count the backend
\* reported.
C25_CountsInRange ==
  (IsUpload /\ result.kind = "returned")
    => /\ 0 <= result.value.uploaded
       /\ result.value.uploaded <= Len(call.samples)
       /\ result.value.skipped >= 0

(* ------------------------ properties of the screens -------------------- *)

\* the handler invocations under way and the last one that ended
Invocations ==
  Range(running) \cup (IF finished.fn = "none" THEN {} ELSE {finished})

Syncs == {inv \in Invocations : inv.fn = "onSyncLast24h"}

\* C22: a sync to which readLast24h answered with unavailable set never
\* calls uploadToBackend and issues no POST.
C22_NoUploadWhenUnavailable ==
  \A inv \in Syncs :
    inv.read = "unavailable" => inv.uploads = 0 /\ inv.posts = <<>>

\* on the web onSyncLast24h ran, readLast24h answered unavailable and the
\* handler returned after its alert
C22_Witness ==
  /\ os = "web"
  /\ finished.fn = "onSyncLast24h"
  /\ finished.read = "unavailable"
  /\ finished.at = "return"
  /\ finished.alerts = <<"Unavailable">>

\* C24: a sync in which readLast24h or uploadToBackend failed has ended in
\* the catch block with the one alert "Sync failed"; no failure leaves the
\* handler, and a sync that showed "Sync complete" had no failure.
C24_FailureSurfaced ==
  \A inv \in Syncs :
    /\ ~inv.escaped
    /\ inv.failed => inv.at = "caught" /\ inv.alerts = <<"Sync failed">>
    /\ (\E a \in 1..Len(inv.alerts) : inv.alerts[a] = "Sync complete")
         => ~inv.failed

\* the read gave samples, the upload was called once and its POST was
\* rejected
C24_Witness ==
  /\ finished.fn = "onSyncLast24h"
  /\ finished.read = "samples"
  /\ finished.uploads = 1
  /\ Len(finished.posts) = 1
  /\ finished.failed
  /\ finished.alerts = <<"Sync failed">>

\* the POST of the add screen's onSubmit that is under way, if any
AddPosts == IF submitted.at = "post" THEN {submitted.post} ELSE {}

\* the POSTs of the syncs
SyncPosts == UNION {Range(inv.posts) : inv \in Syncs}

\* C26: no POST /samples is issued while the stored storageMode is
\* local_only, by the 24h sync or by the add screen.
C26_LocalOnlyNeverPosts ==
  \A p \in AddPosts \cup SyncPosts : p.stored # "local_only"

\* C27: a sync started under raw or aggregated issues no POST /samples once
\* the stored storageMode has been switched to local_only.
C27_ModeAtUpload ==
  \A inv \in Syncs :
    inv.mode \in {"raw", "aggregated"}
      => \A p \in 1..Len(inv.posts) : inv.posts[p].stored # "local_only"

\* C28: the sample onSubmit posts is of the selected type and its data are
\* the values of the fields that onSubmit has just checked.
C28_PostedIsEntered ==
  submitted.at = "post"
    => /\ Len(submitted.post.body.samples) = 1
       /\ submitted.post.body.samples[1].type = submitted.type
       /\ submitted.post.body.samples[1].data = submitted.entered

\* C29: when no onSyncLast24h or onConnect invocation is under way, busy
\* is false.
C29_BusyReleased ==
  running = <<>> => busy = FALSE

\* a sync has ended in its catch block and busy is false again
C29_Witness ==
  /\ running = <<>>
  /\ finished.fn = "onSyncLast24h"
  /\ finished.at = "caught"
  /\ busy = FALSE

\* C30: at most one onSyncLast24h or onConnect invocation is under way,
\* busy is true while it is, every sync was started with the status
\* Available shown, and a sync calls uploadToBackend and POSTs at most once.
C30_OneAtATime ==
  /\ Len(running) <= 1
  /\ running # <<>> => busy
  /\ \A inv \in Syncs :
       /\ inv.native
       /\ inv.uploads <= 1
       /\ Len(inv.posts) <= 1

\* a sync waits for its POST, an onConnect having ended before it
C30_Witness ==
  /\ Len(running) = 1
  /\ running[1].fn = "onSyncLast24h"
  /\ running[1].at = "post"
  /\ finished.fn = "onConnect"
  /\ busy

====
